---- MODULE Spec2Model ----
(***************************************************************************)
(* Model of the spare-inventory application (src/app.py): the SQLite       *)
(* store with its two tables, the four mutating data-access functions       *)
(* (insert_part, update_part, delete_part, adjust_stock) executed           *)
(* statement by statement on separate connections, and the Streamlit       *)
(* shell (main / login) that calls them.                                    *)
(*                                                                         *)
(* Store semantics modelled (python sqlite3, default isolation level,      *)
(* rollback journal):                                                      *)
(*  - a SELECT outside a transaction reads the committed database;         *)
(*  - the first INSERT/UPDATE/DELETE of a `with conn:` block opens a       *)
(*    transaction and takes the single write lock; the changes stay in     *)
(*    the connection's private view until the block commits;               *)
(*  - a statement that needs the write lock while another connection       *)
(*    holds it waits, and fails with "database is locked" on timeout;      *)
(*  - an exception inside `with conn:` rolls the transaction back;         *)
(*  - get_conn() never issues PRAGMA foreign_keys=ON, so the FOREIGN KEY   *)
(*    clause of Transactions is declared but not enforced.                 *)
(* Columns no property reads (description, machine_type, supplier,         *)
(* min_qty, location, and Transactions' id, ts, user, remarks) are left    *)
(* out of the rows; without its key a table is a bag of rows.              *)
(***************************************************************************)
EXTENDS Integers, Sequences, FiniteSets, Bags, TLC

\* ---------------------------------------------------------------- bounds
MaxParts == 2

MaxLedger == 2

Conns == {"c1", "c2"}

PartNumbers == {"P1", "P2"}

\* the one number used where the stock ledger, not the catalog, is examined
StockNumbers == {"P1"}

\* quantities typed into the add / edit forms (number_input min_value=0)
FormQtys == {8}

\* quantities handed to adjust_stock by a direct caller
AdjQtys == {-5, 0, 5}

\* the same, where calls on two connections interleave
StockQtys == {-5, 5}

\* quantities the Issue/Receive page can submit (number_input min_value=1)
PageQtys == {5}

ActionValues == {"IN", "OUT", "MOVE"}

PageActions == {"OUT", "IN"}

Usernames == {"employee", "guest"}

Passwords == {"smt123", "wrong"}

VARIABLES db, pending, writer, pc, op, args, cur, rowcount, err, logged_in, widgets

vars == <<db, pending, writer, pc, op, args, cur, rowcount, err, logged_in, widgets>>

NoConn == "none"

NoArgs == [pid |-> 0, part_number |-> "", qty |-> 0, action |-> ""]

NoWidgets == [username |-> "", password |-> ""]

Terminal == {"idle", "done", "failed"}

\* ------------------------------------------------------------ the schema
EmptyDb == [parts |-> << >>, ledger |-> EmptyBag, seq |-> 0]

PartRow(pn, q) == [part_number |-> pn, current_qty |-> q]

TxRow(pid, a, q) == [part_id |-> pid, action |-> a, quantity |-> q]

UniqueViolation_NoCheck(parts, pid, pn) == FALSE

\* part_number TEXT UNIQUE: another row already carries the number
UniqueViolation(parts, pid, pn) ==
    \E j \in DOMAIN parts : j # pid /\ parts[j].part_number = pn

\* INSERT INTO Transactions: one more row
InsertRow(ledger, row) == ledger (+) SetToBag({row})

CheckAction(a) == a \in {"IN", "OUT"}

NewQty_Swapped(current, qty, action) ==
    IF action = "IN" THEN current - qty ELSE current + qty

NewQty(current, qty, action) ==
    IF action = "IN" THEN current + qty ELSE current - qty

BelowZero_NoCheck(new_qty) == FALSE

BelowZero(new_qty) == new_qty < 0

RemovePart(parts, pid) == [i \in DOMAIN parts \ {pid} |-> parts[i]]

SetQty(parts, pid, q) ==
    [i \in DOMAIN parts |-> IF i = pid THEN [parts[i] EXCEPT !.current_qty = q] ELSE parts[i]]

\* ------------------------------------------------------------------ Init
Init ==
    /\ db = EmptyDb
    /\ pending = EmptyDb
    /\ writer = NoConn
    /\ pc = [c \in Conns |-> "idle"]
    /\ op = [c \in Conns |-> "none"]
    /\ args = [c \in Conns |-> NoArgs]
    /\ cur = [c \in Conns |-> 0]
    /\ rowcount = [c \in Conns |-> 0]
    /\ err = [c \in Conns |-> ""]
    /\ logged_in = [c \in Conns |-> FALSE]
    /\ widgets = [c \in Conns |-> NoWidgets]

Shell == <<logged_in, widgets>>

Store == <<db, pending, writer>>

\* a call starts: locals of the previous call on this connection are gone
Enter(c, name, a, first) ==
    /\ pc[c] \in Terminal
    /\ op' = [op EXCEPT ![c] = name]
    /\ args' = [args EXCEPT ![c] = a]
    /\ pc' = [pc EXCEPT ![c] = first]
    /\ cur' = [cur EXCEPT ![c] = 0]
    /\ rowcount' = [rowcount EXCEPT ![c] = 0]
    /\ err' = [err EXCEPT ![c] = ""]
    /\ UNCHANGED Store

\* the exception unwinds the frame: only the error reaches the caller
Raise(c, e) ==
    /\ pc' = [pc EXCEPT ![c] = "failed"]
    /\ err' = [err EXCEPT ![c] = e]
    /\ args' = [args EXCEPT ![c] = NoArgs]
    /\ cur' = [cur EXCEPT ![c] = 0]
    /\ rowcount' = [rowcount EXCEPT ![c] = 0]

\* the statement opens the transaction and leaves `p` in the private view
Write(c, p, n, next) ==
    /\ pending' = p
    /\ writer' = c
    /\ rowcount' = [rowcount EXCEPT ![c] = n]
    /\ pc' = [pc EXCEPT ![c] = next]
    /\ UNCHANGED <<db, op, args, cur, err>>

\* ----------------------------------------------------------- insert_part
insert_part(c, pn, q) ==
    /\ db.seq < MaxParts
    /\ Enter(c, "insert_part", [NoArgs EXCEPT !.part_number = pn, !.qty = q], "exec")

insert_part_exec(c) ==
    /\ pc[c] = "exec" /\ op[c] = "insert_part"
    /\ writer = NoConn
    /\ IF UniqueViolation(db.parts, 0, args[c].part_number)
       THEN /\ Raise(c, "IntegrityError")
            /\ UNCHANGED <<db, pending, writer, op>>
       ELSE Write(c, [db EXCEPT !.parts = db.parts @@ ((db.seq + 1) :> PartRow(args[c].part_number, args[c].qty)),
                                !.seq = db.seq + 1], 1, "commit")
    /\ UNCHANGED Shell

\* ----------------------------------------------------------- update_part
update_part(c, pid, pn, q) ==
    Enter(c, "update_part", [NoArgs EXCEPT !.pid = pid, !.part_number = pn, !.qty = q], "exec")

update_part_exec(c) ==
    /\ pc[c] = "exec" /\ op[c] = "update_part"
    /\ writer = NoConn
    /\ LET pid == args[c].pid IN
       IF pid \in DOMAIN db.parts
       THEN IF UniqueViolation(db.parts, pid, args[c].part_number)
            THEN /\ Raise(c, "IntegrityError")
                 /\ UNCHANGED <<db, pending, writer, op>>
            ELSE Write(c, [db EXCEPT !.parts[pid] = PartRow(args[c].part_number, args[c].qty)], 1, "commit")
       ELSE Write(c, db, 0, "commit")
    /\ UNCHANGED Shell

\* ----------------------------------------------------------- delete_part
delete_part(c, pid) ==
    Enter(c, "delete_part", [NoArgs EXCEPT !.pid = pid], "exec")

delete_part_exec(c) ==
    /\ pc[c] = "exec" /\ op[c] = "delete_part"
    /\ writer = NoConn
    /\ LET pid == args[c].pid IN
       IF pid \in DOMAIN db.parts
       THEN Write(c, [db EXCEPT !.parts = RemovePart(db.parts, pid)], 1, "commit")
       ELSE Write(c, db, 0, "commit")
    /\ UNCHANGED Shell

\* ---------------------------------------------------------- adjust_stock
InFlightAdjust == {d \in Conns : op[d] = "adjust_stock" /\ pc[d] \notin Terminal}

adjust_stock(c, pid, qty, action) ==
    /\ BagCardinality(db.ledger) + Cardinality(InFlightAdjust) < MaxLedger
    /\ IF CheckAction(action)
       THEN Enter(c, "adjust_stock", [NoArgs EXCEPT !.pid = pid, !.qty = qty, !.action = action], "select")
       ELSE /\ pc[c] \in Terminal
            /\ op' = [op EXCEPT ![c] = "adjust_stock"]
            /\ Raise(c, "Action must be IN or OUT")
            /\ UNCHANGED Store

adjust_stock_select(c) ==
    /\ pc[c] = "select" /\ op[c] = "adjust_stock"
    /\ LET pid == args[c].pid IN
       IF pid \notin DOMAIN db.parts
       THEN Raise(c, "Part not found")
       ELSE IF BelowZero(NewQty(db.parts[pid].current_qty, args[c].qty, args[c].action))
            THEN Raise(c, "Cannot go below zero stock")
            ELSE /\ cur' = [cur EXCEPT ![c] = db.parts[pid].current_qty]
                 /\ pc' = [pc EXCEPT ![c] = "update"]
                 /\ UNCHANGED <<err, args, rowcount>>
    /\ UNCHANGED <<db, pending, writer, op>>
    /\ UNCHANGED Shell

adjust_stock_update(c) ==
    /\ pc[c] = "update" /\ op[c] = "adjust_stock"
    /\ writer = NoConn
    /\ LET pid == args[c].pid
           new_qty == NewQty(cur[c], args[c].qty, args[c].action) IN
       IF pid \in DOMAIN db.parts
       THEN Write(c, [db EXCEPT !.parts = SetQty(db.parts, pid, new_qty)], 1, "insert")
       ELSE Write(c, db, 0, "insert")
    /\ UNCHANGED Shell

adjust_stock_insert(c) ==
    /\ pc[c] = "insert" /\ op[c] = "adjust_stock"
    /\ writer = c
    /\ pending' = [pending EXCEPT !.ledger = InsertRow(pending.ledger, TxRow(args[c].pid, args[c].action, args[c].qty))]
    /\ pc' = [pc EXCEPT ![c] = "commit"]
    /\ UNCHANGED <<db, writer, op, args, cur, rowcount, err>>
    /\ UNCHANGED Shell

\* ------------------------------------------------- leaving `with conn:`
Commit(c) ==
    /\ pc[c] = "commit"
    /\ writer = c
    /\ db' = pending
    /\ writer' = NoConn
    /\ pc' = [pc EXCEPT ![c] = "done"]
    /\ op' = [op EXCEPT ![c] = "none"]
    /\ args' = [args EXCEPT ![c] = NoArgs]
    /\ cur' = [cur EXCEPT ![c] = 0]
    /\ rowcount' = [rowcount EXCEPT ![c] = 0]
    /\ UNCHANGED <<pending, err>>
    /\ UNCHANGED Shell

\* the write lock is held elsewhere until the busy timeout expires
Busy(c) ==
    /\ pc[c] \in {"exec", "update"}
    /\ writer \notin {NoConn, c}
    /\ Raise(c, "database is locked")
    /\ UNCHANGED <<db, pending, writer, op>>
    /\ UNCHANGED Shell

\* the process dies: open transactions are rolled back by the journal
Crash ==
    /\ \E c \in Conns : pc[c] \notin Terminal
    /\ pending' = db
    /\ writer' = NoConn
    /\ pc' = [c \in Conns |-> "idle"]
    /\ op' = [c \in Conns |-> "none"]
    /\ args' = [c \in Conns |-> NoArgs]
    /\ cur' = [c \in Conns |-> 0]
    /\ rowcount' = [c \in Conns |-> 0]
    /\ err' = [c \in Conns |-> ""]
    /\ logged_in' = [c \in Conns |-> FALSE]
    /\ widgets' = [c \in Conns |-> NoWidgets]
    /\ UNCHANGED db

Step(c) ==
    \/ insert_part_exec(c)
    \/ update_part_exec(c)
    \/ delete_part_exec(c)
    \/ adjust_stock_select(c)
    \/ adjust_stock_update(c)
    \/ adjust_stock_insert(c)
    \/ Commit(c)

\* a direct caller of the data-access functions (any front end)
CallWith(c, numbers, qtys) ==
    \/ \E pn \in numbers, q \in FormQtys : insert_part(c, pn, q) /\ UNCHANGED Shell
    \/ \E pid \in 1..MaxParts, pn \in numbers, q \in FormQtys : update_part(c, pid, pn, q) /\ UNCHANGED Shell
    \/ \E pid \in 1..MaxParts : delete_part(c, pid) /\ UNCHANGED Shell
    \/ \E pid \in 1..MaxParts, q \in qtys, a \in ActionValues : adjust_stock(c, pid, q, a) /\ UNCHANGED Shell

Call(c) == CallWith(c, StockNumbers, StockQtys)

Next ==
    \/ \E c \in Conns : Call(c)
    \/ \E c \in Conns : Step(c)
    \/ \E c \in Conns : Busy(c)
    \/ Crash

Spec == Init /\ [][Next]_vars

\* ------------------- one connection: no call overlaps another operation
SeqConn == "c1"

SeqNext ==
    \/ CallWith(SeqConn, PartNumbers, AdjQtys)
    \/ Step(SeqConn)

SeqSpec == Init /\ [][SeqNext]_vars

\* ------------------------------- the catalog alone, both part numbers
CatalogCall(c) ==
    \/ \E pn \in PartNumbers, q \in FormQtys : insert_part(c, pn, q) /\ UNCHANGED Shell
    \/ \E pid \in 1..MaxParts, pn \in PartNumbers, q \in FormQtys : update_part(c, pid, pn, q) /\ UNCHANGED Shell
    \/ \E pid \in 1..MaxParts : delete_part(c, pid) /\ UNCHANGED Shell

CatalogNext ==
    \/ \E c \in Conns : CatalogCall(c)
    \/ \E c \in Conns : insert_part_exec(c)
    \/ \E c \in Conns : update_part_exec(c)
    \/ \E c \in Conns : delete_part_exec(c)
    \/ \E c \in Conns : Commit(c)
    \/ \E c \in Conns : Busy(c)
    \/ Crash

CatalogSpec == Init /\ [][CatalogNext]_vars

\* --------------------- adjustments only, on a part holding 8 in stock
AdjustInit ==
    /\ db = [parts |-> (1 :> PartRow("P1", 8)), ledger |-> EmptyBag, seq |-> 1]
    /\ pending = db
    /\ writer = NoConn
    /\ pc = [c \in Conns |-> "idle"]
    /\ op = [c \in Conns |-> "none"]
    /\ args = [c \in Conns |-> NoArgs]
    /\ cur = [c \in Conns |-> 0]
    /\ rowcount = [c \in Conns |-> 0]
    /\ err = [c \in Conns |-> ""]
    /\ logged_in = [c \in Conns |-> FALSE]
    /\ widgets = [c \in Conns |-> NoWidgets]

AdjustNext ==
    \/ \E c \in Conns, pid \in 1..MaxParts, q \in PageQtys, a \in ActionValues :
           adjust_stock(c, pid, q, a) /\ UNCHANGED Shell
    \/ \E c \in Conns : adjust_stock_select(c)
    \/ \E c \in Conns : adjust_stock_update(c)
    \/ \E c \in Conns : adjust_stock_insert(c)
    \/ \E c \in Conns : Commit(c)
    \/ \E c \in Conns : Busy(c)

AdjustSpec == AdjustInit /\ [][AdjustNext]_vars

\* ------------------------------------------------- the Streamlit shell
\* each session runs main() on its own connection; a widget event reruns it
CredentialsOk(u, p) == u = "employee" /\ p = "smt123"

Authenticated_Open(s) == TRUE

\* main(): `if not st.session_state.logged_in: login(); st.stop()`
Authenticated(s) == logged_in[s]

\* a run of main() in which the sidebar Login button was pressed
login(s, u, p) ==
    /\ pc[s] \in Terminal
    /\ ~Authenticated(s)
    /\ widgets' = [widgets EXCEPT ![s] = [username |-> u, password |-> p]]
    /\ logged_in' = [logged_in EXCEPT ![s] = CredentialsOk(u, p)]
    /\ UNCHANGED <<db, pending, writer, pc, op, args, cur, rowcount, err>>

\* "Save Changes" on the edit form of a listed part
parts_page_save(s) ==
    /\ Authenticated(s)
    /\ \E pid \in DOMAIN db.parts, pn \in StockNumbers, q \in FormQtys : update_part(s, pid, pn, q)
    /\ UNCHANGED Shell

\* "Delete Selected Part"
parts_page_delete(s) ==
    /\ Authenticated(s)
    /\ \E pid \in DOMAIN db.parts : delete_part(s, pid)
    /\ UNCHANGED Shell

\* "Add Part" with a non-empty part number
parts_page_add(s) ==
    /\ Authenticated(s)
    /\ \E pn \in StockNumbers, q \in FormQtys : insert_part(s, pn, q)
    /\ UNCHANGED Shell

\* "Submit" on the Issue / Receive page
io_page(s) ==
    /\ Authenticated(s)
    /\ \E pid \in DOMAIN db.parts, q \in PageQtys, a \in PageActions : adjust_stock(s, pid, q, a)
    /\ UNCHANGED Shell

main(s) ==
    \/ \E u \in Usernames, p \in Passwords : login(s, u, p)
    \/ parts_page_save(s)
    \/ parts_page_delete(s)
    \/ parts_page_add(s)
    \/ io_page(s)

ShellNext ==
    \/ \E s \in Conns : main(s)
    \/ \E s \in Conns : Step(s)
    \/ \E s \in Conns : Busy(s)
    \/ Crash

ShellSpec == Init /\ [][ShellNext]_vars

\* ================================================================ claims
Rows(d) == BagToSet(d.ledger)

RECURSIVE LedgerDelta(_, _, _)
\* net movement the ledger rows in S record for part pid: IN minus OUT
LedgerDelta(ledger, S, pid) ==
    IF S = {} THEN 0
    ELSE LET r == CHOOSE x \in S : TRUE
             d == IF r.part_id # pid THEN 0
                  ELSE IF r.action = "IN" THEN r.quantity ELSE 0 - r.quantity
         IN d * CopiesIn(r, ledger) + LedgerDelta(ledger, S \ {r}, pid)

\* C1 (AdjustSpec): concurrent adjust_stock calls on one part are serialised,
\* so the stock of the part always equals its starting stock plus the net
\* movement of the committed ledger rows (two OUT 5 on 8: one row, stock 3).
C1_SerialOutcome ==
    /\ 1 \in DOMAIN db.parts
    /\ db.parts[1].current_qty = 8 + LedgerDelta(db.ledger, Rows(db), 1)

\* the step is taken by c, or by nobody who writes the store
OnlyActs(c) == \A d \in Conns \ {c} : pc'[d] = pc[d]

\* the `with conn:` block of c's call to `name` commits in this step
Commits(c, name) == pc[c] = "commit" /\ pc'[c] = "done" /\ op[c] = name

\* C2 (Spec): adjust_stock is all-or-nothing, also against a concurrent
\* delete_part: the commit of an adjustment publishes exactly one new ledger
\* row together with a quantity write that changed one part, and no other
\* step of the call changes the committed store.
C2_AllOrNothing ==
    [][\A c \in Conns :
        /\ Commits(c, "adjust_stock") =>
               /\ BagCardinality(db'.ledger) = BagCardinality(db.ledger) + 1
               /\ rowcount[c] = 1
        /\ (op[c] = "adjust_stock" /\ pc[c] # "commit" /\ OnlyActs(c)) => db' = db
      ]_vars

\* C3 (Spec): no part ever has a negative current_qty, committed or in an
\* open transaction, whatever quantities adjust_stock is given.
C3_NonNegative ==
    /\ \A i \in DOMAIN db.parts : db.parts[i].current_qty >= 0
    /\ \A i \in DOMAIN pending.parts : pending.parts[i].current_qty >= 0

C3_Witness ==
    \E r \in Rows(db) : r.quantity < 0 /\ r.part_id \in DOMAIN db.parts

\* C4 (Spec): an adjust_stock that fails leaves the committed store as it
\* was, and an OUT of more than the stock read always fails with the
\* insufficient-stock error.
C4_FailedAdjustLeavesStore ==
    [][\A c \in Conns :
        /\ (pc'[c] = "failed" /\ op'[c] = "adjust_stock" /\ OnlyActs(c)) => db' = db
        /\ ( /\ pc[c] = "select" /\ op[c] = "adjust_stock"
             /\ pc'[c] \notin {"select", "idle"}
             /\ args[c].action = "OUT"
             /\ args[c].pid \in DOMAIN db.parts
             /\ args[c].qty > db.parts[args[c].pid].current_qty )
           => (pc'[c] = "failed" /\ err'[c] = "Cannot go below zero stock")
      ]_vars

C4_Witness ==
    \E c \in Conns : pc[c] = "failed" /\ op[c] = "adjust_stock"
                     /\ err[c] = "Cannot go below zero stock"

\* C5 (SeqSpec): a successful adjust_stock that overlaps no other operation
\* moves the part's current_qty by exactly the quantity, appends exactly one
\* ledger row with that part, direction and quantity, and changes nothing else.
C5_ExactAdjustment ==
    [][\A c \in Conns :
        LET pid == args[c].pid
            q == args[c].qty
            a == args[c].action
        IN ( /\ pc[c] = "commit" /\ pc'[c] = "done" /\ op[c] = "adjust_stock"
             /\ \/ a = "IN" /\ q > 0
                \/ a = "OUT" /\ pid \in DOMAIN db.parts /\ q <= db.parts[pid].current_qty )
           => /\ pid \in DOMAIN db.parts
              /\ DOMAIN db'.parts = DOMAIN db.parts
              /\ db'.parts[pid].current_qty =
                     db.parts[pid].current_qty + (IF a = "IN" THEN q ELSE 0 - q)
              /\ db'.parts[pid].part_number = db.parts[pid].part_number
              /\ \A j \in DOMAIN db.parts \ {pid} : db'.parts[j] = db.parts[j]
              /\ db'.ledger = db.ledger (+) SetToBag({TxRow(pid, a, q)})
      ]_vars

C5_Witness ==
    /\ \E c \in Conns : pc[c] = "done"
    /\ Cardinality(DOMAIN db.parts) = 2
    /\ \E r \in Rows(db) : r.part_id \in DOMAIN db.parts /\ r.action = "OUT" /\ r.quantity > 0

\* C6 (Spec): every ledger row references a part of the catalog, and no row
\* of a deleted part survives delete_part.
C6_ReferentialIntegrity ==
    \A r \in Rows(db) : r.part_id \in DOMAIN db.parts

\* C7 (Spec): every ledger row has quantity > 0 and action IN or OUT.
C7_PositiveRows ==
    \A r \in Rows(db) : r.quantity > 0 /\ r.action \in {"IN", "OUT"}

\* C8 (ShellSpec): a session starts a mutating operation only while its
\* logged_in flag is true, and the flag turns true only on a login
\* submission carrying the fixed credentials.
C8_AuthenticatedOnly ==
    [][\A s \in Conns :
        /\ (pc[s] \in Terminal /\ pc'[s] \in {"exec", "select"}) => logged_in[s]
        /\ (~logged_in[s] /\ logged_in'[s]) =>
               widgets'[s] = [username |-> "employee", password |-> "smt123"]
      ]_vars

C8_Witness ==
    \E s \in Conns : logged_in[s] /\ pc[s] = "done" /\ db.seq > 0

SameNumber(parts, pn) == {j \in DOMAIN parts : parts[j].part_number = pn}

\* C9 (CatalogSpec): no two parts share a part_number, and an insert_part of
\* a number already present fails with the duplicate-key error, leaving
\* exactly one part of that number.
C9_UniqueNumbers ==
    [][/\ \A i, j \in DOMAIN db'.parts :
              db'.parts[i].part_number = db'.parts[j].part_number => i = j
       /\ \A c \in Conns :
            ( /\ pc[c] = "exec" /\ op[c] = "insert_part"
              /\ writer = NoConn
              /\ pc'[c] \notin {"exec", "idle"}
              /\ SameNumber(db.parts, args[c].part_number) # {} )
            => /\ pc'[c] = "failed" /\ err'[c] = "IntegrityError"
               /\ db' = db
               /\ Cardinality(SameNumber(db'.parts, args[c].part_number)) = 1
      ]_vars

C9_Witness ==
    \E c \in Conns : pc[c] = "failed" /\ op[c] = "insert_part" /\ err[c] = "IntegrityError"

\* C10 (Spec): update_part never returns normally for an id that matches no
\* part; it fails with a not-found error.
C10_UpdateNotFound ==
    [][\A c \in Conns : Commits(c, "update_part") => rowcount[c] = 1]_vars

====
